---- MODULE Spec2Model ----
(***************************************************************************)
(* Hervor API test suite (src/src/hervor.py): parse_tests followed by      *)
(* conduct_tests, as one sequential process.                               *)
(*                                                                         *)
(* A Python dict (the value json.load returns for a JSON object) is a      *)
(* sequence of entries with pairwise distinct keys, in insertion order.    *)
(* An Optional[str] is a sequence of length 0 (None) or 1 (the string).    *)
(* The terminal is the sequence of cprint calls; the network is the        *)
(* sequence of calls of requests.request.                                  *)
(***************************************************************************)
EXTENDS Integers, Sequences, FiniteSets, TLC

VARIABLES
    program_data,   \* the document json.load returned (parse_tests:126)
    arg_base_uri,   \* args.base_uri, the override handed to conduct_tests
    test,           \* the Test parse_tests returned
    base_uri,       \* conduct_tests' local base_uri after resolution
    gi,             \* position of the loop over test.test_groups
    ci,             \* position of the loop over test_group.test_cases
    output,         \* the cprint calls made so far
    requests,       \* the calls of requests.request made so far
    inflight,       \* requests sent and not yet answered
    resp,           \* conduct's local req, the response received
    test_result,    \* conduct_tests' local test_result
    pc,             \* position of the process
    err             \* the exception that ended the run, "none" if none

vars == <<program_data, arg_base_uri, test, base_uri, gi, ci, output,
          requests, inflight, resp, test_result, pc, err>>

----------------------------------------------------------------------------
(* Bounds of the model *)

\* most case objects in one document, over all its groups
MaxCases == 3

----------------------------------------------------------------------------
(* Python values *)

None == <<>>
Some(s) == <<s>>

\* key in d
HasKey(d, k) == \E i \in 1..Len(d) : d[i].key = k

\* d[k], for a key that is present
Get(d, k) == d[CHOOSE i \in 1..Len(d) : d[i].key = k]

\* del d[k]: the other entries keep their order
Del(d, k) == SelectSeq(d, LAMBDA e : e.key # k)

----------------------------------------------------------------------------
(* Parser *)

NoCase == [name |-> "", endpoint |-> "", method |-> "", status |-> 0,
           output |-> None]

\* a variant of parse_test_case that reads every key with .get
parse_test_case_get(test_case_data) ==
    LET get(k, d) == IF k \in DOMAIN test_case_data THEN test_case_data[k] ELSE d
    IN  [err |-> "none",
         val |-> [name |-> get("Name", ""),
                  endpoint |-> get("Endpoint", ""),
                  method |-> get("Method", ""),
                  status |-> get("Status", 0),
                  output |-> IF "Output" \in DOMAIN test_case_data
                             THEN Some(test_case_data.Output)
                             ELSE None]]

\* TestCase(test_case_data['Name'], ['Endpoint'], ['Method'], ['Status'],
\*          test_case_data.get('Output')): a missing key raises KeyError
parse_test_case(test_case_data) ==
    IF /\ "Name" \in DOMAIN test_case_data
       /\ "Endpoint" \in DOMAIN test_case_data
       /\ "Method" \in DOMAIN test_case_data
       /\ "Status" \in DOMAIN test_case_data
    THEN [err |-> "none",
          val |-> [name |-> test_case_data.Name,
                   endpoint |-> test_case_data.Endpoint,
                   method |-> test_case_data.Method,
                   status |-> test_case_data.Status,
                   output |-> IF "Output" \in DOMAIN test_case_data
                              THEN Some(test_case_data.Output)
                              ELSE None]]
    ELSE [err |-> "KeyError", val |-> NoCase]

RECURSIVE parse_test_cases(_)
\* the cases of one group, in list order; the first exception ends the loop
parse_test_cases(test_group_data) ==
    IF test_group_data = <<>>
    THEN [err |-> "none", val |-> <<>>]
    ELSE LET first == parse_test_case(Head(test_group_data))
             rest == parse_test_cases(Tail(test_group_data))
         IN  IF first.err # "none" THEN [err |-> first.err, val |-> <<>>]
             ELSE IF rest.err # "none" THEN rest
             ELSE [err |-> "none", val |-> <<first.val>> \o rest.val]

RECURSIVE GroupsOf(_)
\* the loop of parse_test_groups over the keys left in program_data
GroupsOf(entries) ==
    IF entries = <<>>
    THEN [err |-> "none", val |-> <<>>]
    ELSE LET cases == parse_test_cases(Head(entries).cases)
             rest == GroupsOf(Tail(entries))
         IN  IF cases.err # "none" THEN [err |-> cases.err, val |-> <<>>]
             ELSE IF rest.err # "none" THEN rest
             ELSE [err |-> "none",
                   val |-> <<[name |-> Head(entries).key,
                              test_cases |-> cases.val]>> \o rest.val]

RECURSIVE Reverse(_)
Reverse(s) == IF s = <<>> THEN <<>> ELSE Append(Reverse(Tail(s)), Head(s))

\* a variant of parse_test_groups that walks the keys last to first
parse_test_groups_reversed(data) ==
    LET d1 == IF HasKey(data, "Default URI") THEN Del(data, "Default URI")
              ELSE data
    IN  IF ~HasKey(d1, "Name") THEN [err |-> "KeyError", val |-> <<>>]
        ELSE GroupsOf(Reverse(Del(d1, "Name")))

\* a variant of parse_test_groups that leaves "Default URI" among the keys
parse_test_groups_keep_default(data) ==
    IF ~HasKey(data, "Name") THEN [err |-> "KeyError", val |-> <<>>]
    ELSE GroupsOf(Del(data, "Name"))

\* del "Default URI" if present, del "Name" (KeyError if absent), then
\* one TestGroup per remaining key
parse_test_groups(data) ==
    LET d1 == IF HasKey(data, "Default URI") THEN Del(data, "Default URI")
              ELSE data
    IN  IF ~HasKey(d1, "Name") THEN [err |-> "KeyError", val |-> <<>>]
        ELSE GroupsOf(Del(d1, "Name"))

NoTest == [name |-> "", default_uri |-> None, test_groups |-> <<>>]

\* Test(program_data['Name'], {}, program_data.get('Default URI'),
\*      parse_test_groups(program_data)); the arguments are evaluated in
\* order, so a missing 'Name' raises before parse_test_groups is called
parse_tests_result(data) ==
    LET default_uri == IF HasKey(data, "Default URI")
                       THEN Some(Get(data, "Default URI").str)
                       ELSE None
    IN  IF ~HasKey(data, "Name") THEN [err |-> "KeyError", val |-> NoTest]
        ELSE LET groups == parse_test_groups(data)
             IN  IF groups.err # "none"
                 THEN [err |-> groups.err, val |-> NoTest]
                 ELSE [err |-> "none",
                       val |-> [name |-> Get(data, "Name").str,
                                default_uri |-> default_uri,
                                test_groups |-> groups.val]]

----------------------------------------------------------------------------
(* Executor *)

NoResp == [status_code |-> 0, text |-> ""]

\* a variant of conduct_result that never looks at the body
conduct_result_status_only(tc, req) == req.status_code = tc.status

\* the comparison of TestCase.conduct
conduct_result(tc, req) ==
    LET result == (req.status_code = tc.status)
    IN  IF tc.output # None
        THEN result /\ (req.text = tc.output[1])
        ELSE result

\* the test group and the test case the loops stand at
CurGroup == test.test_groups[gi]
CurCase == CurGroup.test_cases[ci]

----------------------------------------------------------------------------
(* Inputs *)

GroupKeys == {"Users", "Posts"}
AllKeys == {"Name", "Default URI"} \cup GroupKeys

\* case objects with every required key and no empty string
PlainCases ==
    { [Name |-> "list", Endpoint |-> "/a", Method |-> "GET", Status |-> 200],
      [Name |-> "make", Endpoint |-> "/b", Method |-> "POST", Status |-> 201,
       Output |-> "ok"] }

\* case objects with every required key
GoodCases ==
    PlainCases \cup
    { [Name |-> "drop", Endpoint |-> "/c", Method |-> "DELETE", Status |-> 200,
       Output |-> ""] }

\* case objects that lack one required key
BadCases ==
    { [Endpoint |-> "/a", Method |-> "GET", Status |-> 200],
      [Name |-> "list", Method |-> "GET", Status |-> 200],
      [Name |-> "list", Endpoint |-> "/a", Status |-> 200, Output |-> "ok"],
      [Name |-> "list", Endpoint |-> "/a", Method |-> "GET"] }

\* the lists of at most n of the case objects, at most one of them malformed
CaseLists(objects, n) ==
    { l \in UNION { [1..k -> objects] : k \in 0..n } :
        Cardinality({i \in DOMAIN l : l[i] \in BadCases}) <= 1 }

\* the orders in which a set of distinct keys can appear in a document
KeyOrders ==
    { ks \in UNION { [1..k -> AllKeys] : k \in 0..Cardinality(AllKeys) } :
        \A i, j \in DOMAIN ks : i # j => ks[i] # ks[j] }

\* the orders a document is usually written in
UsualOrders ==
    { <<"Name", "Users">>, <<"Name", "Default URI", "Users">>,
      <<"Name", "Users", "Posts">>,
      <<"Name", "Default URI", "Users", "Posts">> }

GroupsIn(ks) == SelectSeq(ks, LAMBDA k : k \in GroupKeys)

\* the document with keys ks whose first group holds the first s case objects
\* of l and whose last group holds the others
Document(ks, l, s) ==
    LET first == GroupsIn(ks)[1]
    IN  [i \in DOMAIN ks |->
            [key |-> ks[i],
             str |-> IF ks[i] = "Name" THEN "S"
                     ELSE IF ks[i] = "Default URI" THEN "http://d"
                     ELSE "",
             cases |-> IF ks[i] \notin GroupKeys THEN <<>>
                       ELSE IF Len(GroupsIn(ks)) = 1 THEN l
                       ELSE IF ks[i] = first THEN SubSeq(l, 1, s)
                       ELSE SubSeq(l, s + 1, Len(l))]]

DocumentsOf(orders, lists) ==
    { Document(x[1], x[2], x[3]) :
        x \in { y \in orders \X lists \X (0..MaxCases) :
                  /\ y[3] <= Len(y[2])
                  /\ Len(GroupsIn(y[1])) = 0 => y[2] = <<>>
                  /\ Len(GroupsIn(y[1])) = 1 => y[3] = 0 } }

\* every order of the keys around short lists of cases, and the usual orders
\* of the keys around every list of cases
Documents ==
    DocumentsOf(KeyOrders, CaseLists(PlainCases, MaxCases - 1))
    \cup DocumentsOf(UsualOrders, CaseLists(GoodCases \cup BadCases, MaxCases))

Overrides == {None, Some(""), Some("http://o")}

StatusCodes == {200, 201}
Bodies == {"", "ok", "ok "}

----------------------------------------------------------------------------
(* The run *)

InitOn(documents) ==
    /\ program_data \in documents
    /\ arg_base_uri \in Overrides
    /\ test = NoTest
    /\ base_uri = ""
    /\ gi = 0
    /\ ci = 0
    /\ output = <<>>
    /\ requests = <<>>
    /\ inflight = 0
    /\ resp = NoResp
    /\ test_result = FALSE
    /\ pc = "parse_tests"
    /\ err = "none"

Init == InitOn(Documents)

\* parse_tests(args.test)
ParseTests ==
    /\ pc = "parse_tests"
    /\ LET r == parse_tests_result(program_data)
       IN  IF r.err # "none"
           THEN /\ pc' = "error"
                /\ err' = r.err
                /\ test' = test
           ELSE /\ pc' = "conduct_tests"
                /\ err' = err
                /\ test' = r.val
    /\ UNCHANGED <<program_data, arg_base_uri, base_uri, gi, ci, output,
                   requests, inflight, resp, test_result>>

\* a variant of ResolveBaseUri that goes on without any base URI
ResolveBaseUri_NoCheck ==
    /\ pc = "conduct_tests"
    /\ base_uri' = IF arg_base_uri # None THEN arg_base_uri[1]
                   ELSE IF test.default_uri # None THEN test.default_uri[1]
                   ELSE ""
    /\ gi' = 1
    /\ pc' = "for_group"
    /\ UNCHANGED <<program_data, arg_base_uri, test, ci, output, requests,
                   inflight, resp, test_result, err>>

\* a variant of ResolveBaseUri that prefers the bundle's default
ResolveBaseUri_DefaultFirst ==
    /\ pc = "conduct_tests"
    /\ IF test.default_uri = None
       THEN IF arg_base_uri = None
            THEN /\ pc' = "error"
                 /\ err' = "ArgumentError"
                 /\ UNCHANGED <<base_uri, gi>>
            ELSE /\ base_uri' = arg_base_uri[1]
                 /\ gi' = 1
                 /\ pc' = "for_group"
                 /\ err' = err
       ELSE /\ base_uri' = test.default_uri[1]
            /\ gi' = 1
            /\ pc' = "for_group"
            /\ err' = err
    /\ UNCHANGED <<program_data, arg_base_uri, test, ci, output, requests,
                   inflight, resp, test_result>>

\* a variant of ResolveBaseUri that tests "not base_uri" instead of "is None"
ResolveBaseUri_Falsy ==
    /\ pc = "conduct_tests"
    /\ IF arg_base_uri = None \/ arg_base_uri = Some("")
       THEN IF test.default_uri = None
            THEN /\ pc' = "error"
                 /\ err' = "ArgumentError"
                 /\ UNCHANGED <<base_uri, gi>>
            ELSE /\ base_uri' = test.default_uri[1]
                 /\ gi' = 1
                 /\ pc' = "for_group"
                 /\ err' = err
       ELSE /\ base_uri' = arg_base_uri[1]
            /\ gi' = 1
            /\ pc' = "for_group"
            /\ err' = err
    /\ UNCHANGED <<program_data, arg_base_uri, test, ci, output, requests,
                   inflight, resp, test_result>>

\* conduct_tests, lines 140-144: the base URI is the argument unless it is
\* None; without a default either, the raise statement ends the run. (The
\* call ArgumentError(message) lacks the constructor's first argument, so
\* the exception that leaves line 142 is a TypeError; err names the
\* statement, and an exception leaves conduct_tests there either way.)
ResolveBaseUri ==
    /\ pc = "conduct_tests"
    /\ IF arg_base_uri = None
       THEN IF test.default_uri = None
            THEN /\ pc' = "error"
                 /\ err' = "ArgumentError"
                 /\ UNCHANGED <<base_uri, gi>>
            ELSE /\ base_uri' = test.default_uri[1]
                 /\ gi' = 1
                 /\ pc' = "for_group"
                 /\ err' = err
       ELSE /\ base_uri' = arg_base_uri[1]
            /\ gi' = 1
            /\ pc' = "for_group"
            /\ err' = err
    /\ UNCHANGED <<program_data, arg_base_uri, test, ci, output, requests,
                   inflight, resp, test_result>>

\* for test_group in test.test_groups: cprint(test_group.name)
GroupLoop ==
    /\ pc = "for_group"
    /\ IF gi <= Len(test.test_groups)
       THEN /\ output' = Append(output, [kind |-> "Group", name |-> CurGroup.name])
            /\ ci' = 1
            /\ pc' = "for_case"
       ELSE /\ pc' = "done"
            /\ UNCHANGED <<output, ci>>
    /\ UNCHANGED <<program_data, arg_base_uri, test, base_uri, gi, requests,
                   inflight, resp, test_result, err>>

\* for test_case in test_group.test_cases: cprint("... Testing")
CaseLoop ==
    /\ pc = "for_case"
    /\ IF ci <= Len(CurGroup.test_cases)
       THEN /\ output' = Append(output, [kind |-> "Testing", name |-> CurCase.name])
            /\ pc' = "conduct"
            /\ gi' = gi
       ELSE /\ gi' = gi + 1
            /\ pc' = "for_group"
            /\ output' = output
    /\ UNCHANGED <<program_data, arg_base_uri, test, base_uri, ci, requests,
                   inflight, resp, test_result, err>>

\* a variant of SendRequest that sends the request a second time
SendRequest_Twice ==
    /\ pc = "conduct"
    /\ LET r == [method |-> CurCase.method, url |-> base_uri \o CurCase.endpoint]
       IN  requests' = requests \o <<r, r>>
    /\ inflight' = inflight + 1
    /\ pc' = "await"
    /\ UNCHANGED <<program_data, arg_base_uri, test, base_uri, gi, ci, output,
                   resp, test_result, err>>

\* request(self.method, base_uri + self.endpoint): the call goes out
SendRequest ==
    /\ pc = "conduct"
    /\ requests' = Append(requests, [method |-> CurCase.method,
                                     url |-> base_uri \o CurCase.endpoint])
    /\ inflight' = inflight + 1
    /\ pc' = "await"
    /\ UNCHANGED <<program_data, arg_base_uri, test, base_uri, gi, ci, output,
                   resp, test_result, err>>

\* the call returns a response; conduct compares and returns
Receive ==
    /\ pc = "await"
    /\ \E s \in StatusCodes, b \in Bodies :
          LET req == [status_code |-> s, text |-> b]
          IN  /\ resp' = req
              /\ test_result' = conduct_result(CurCase, req)
    /\ inflight' = inflight - 1
    /\ pc' = "report"
    /\ UNCHANGED <<program_data, arg_base_uri, test, base_uri, gi, ci, output,
                   requests, err>>

\* a variant of NetworkError that catches the exception and goes on
NetworkError_Caught ==
    /\ pc = "await"
    /\ inflight' = inflight - 1
    /\ ci' = ci + 1
    /\ pc' = "for_case"
    /\ err' = "ConnectionError"
    /\ UNCHANGED <<program_data, arg_base_uri, test, base_uri, gi, output,
                   requests, resp, test_result>>

\* the call raises; nothing catches the exception
NetworkError ==
    /\ pc = "await"
    /\ inflight' = inflight - 1
    /\ pc' = "error"
    /\ err' = "ConnectionError"
    /\ UNCHANGED <<program_data, arg_base_uri, test, base_uri, gi, ci, output,
                   requests, resp, test_result>>

\* a variant of Report that leaves the loops at the first failed case
Report_StopOnFailure ==
    /\ pc = "report"
    /\ output' = Append(output, [kind |-> IF test_result THEN "Passed" ELSE "Failed",
                                 name |-> CurCase.name])
    /\ resp' = NoResp
    /\ ci' = ci + 1
    /\ pc' = IF test_result THEN "for_case" ELSE "done"
    /\ UNCHANGED <<program_data, arg_base_uri, test, base_uri, gi, requests,
                   inflight, test_result, err>>

\* cprint("... Passed!") or cprint("... Failed!"), then the next case
Report ==
    /\ pc = "report"
    /\ output' = Append(output, [kind |-> IF test_result THEN "Passed" ELSE "Failed",
                                 name |-> CurCase.name])
    /\ resp' = NoResp
    /\ ci' = ci + 1
    /\ pc' = "for_case"
    /\ UNCHANGED <<program_data, arg_base_uri, test, base_uri, gi, requests,
                   inflight, test_result, err>>

Next ==
    \/ ParseTests
    \/ ResolveBaseUri
    \/ GroupLoop
    \/ CaseLoop
    \/ SendRequest
    \/ Receive
    \/ NetworkError
    \/ Report

Spec == Init /\ [][Next]_vars

\* The process is the only one and takes its next step whenever it has one;
\* a request that is sent is answered or raises. Behaviours are checked on
\* the well-formed documents in the usual orders.
FairInit == InitOn(DocumentsOf(UsualOrders, CaseLists(PlainCases, MaxCases)))
FairSpec == FairInit /\ [][Next]_vars /\ WF_vars(Next)

----------------------------------------------------------------------------
(* The document as its author reads it, without the parser *)

ReservedKeys == {"Name", "Default URI"}
RequiredKeys == {"Name", "Endpoint", "Method", "Status"}

Last(s) == s[Len(s)]
IsPrefix(s, t) == Len(s) <= Len(t) /\ SubSeq(t, 1, Len(s)) = s

\* the group entries of a document, in document order
GroupEntries(doc) == SelectSeq(doc, LAMBDA e : e.key \notin ReservedKeys)

RECURSIVE Flatten(_)
Flatten(ss) == IF ss = <<>> THEN <<>> ELSE Head(ss) \o Flatten(Tail(ss))

\* the case objects of a document, in document order
DocCases(doc) ==
    LET ge == GroupEntries(doc)
    IN  Flatten([i \in DOMAIN ge |-> ge[i].cases])

\* a required key is missing at the top level or in some case object
Malformed(doc) ==
    \/ ~HasKey(doc, "Name")
    \/ \E i \in DOMAIN doc :
          /\ doc[i].key \notin ReservedKeys
          /\ \E j \in DOMAIN doc[i].cases :
                ~(RequiredKeys \subseteq DOMAIN doc[i].cases[j])

\* the group names and case names of a well-formed document, in document order
ExpectedOrder(doc) ==
    LET ge == GroupEntries(doc)
    IN  Flatten([i \in DOMAIN ge |->
            <<[kind |-> "Group", name |-> ge[i].key]>>
            \o [j \in DOMAIN ge[i].cases |->
                   [kind |-> "Case", name |-> ge[i].cases[j].Name]]])

\* the group names and verdict lines printed so far, in print order
ObservedOrder ==
    LET lines == SelectSeq(output, LAMBDA l : l.kind # "Testing")
    IN  [i \in DOMAIN lines |->
            IF lines[i].kind = "Group" THEN lines[i]
            ELSE [kind |-> "Case", name |-> lines[i].name]]

Groups == Len(SelectSeq(output, LAMBDA l : l.kind = "Group"))
Indicators == Len(SelectSeq(output, LAMBDA l : l.kind = "Testing"))
Verdicts == Len(SelectSeq(output, LAMBDA l : l.kind \in {"Passed", "Failed"}))

HasDefault == HasKey(program_data, "Default URI")
DefaultUri == Get(program_data, "Default URI").str
Terminated == pc \in {"done", "error"}

----------------------------------------------------------------------------
(* Claims *)

\* C1: a document without the top-level Name, or with a case object (of any
\* group, the last case of the last group included) that lacks Name,
\* Endpoint, Method or Status, ends the run with an error in the parser:
\* no request is sent and nothing is printed.
C1_FailFast ==
    Malformed(program_data) =>
        /\ requests = <<>>
        /\ inflight = 0
        /\ output = <<>>
        /\ pc \in {"parse_tests", "error"}
        /\ pc = "error" => err = "KeyError"

\* the run has aborted on a document whose only flaw is in the last case of
\* the last group, after a well-formed group
C1_Witness ==
    /\ pc = "error"
    /\ err = "KeyError"
    /\ HasKey(program_data, "Name")
    /\ Len(GroupEntries(program_data)) = 2
    /\ LET ge == GroupEntries(program_data)
       IN  /\ Len(ge[1].cases) >= 1
           /\ Len(ge[2].cases) >= 2
           /\ Last(program_data) = ge[2]
           /\ ~(RequiredKeys \subseteq DOMAIN Last(ge[2].cases))
           /\ "Name" \in DOMAIN Last(ge[2].cases)

\* C2: conduct returns true iff the status code equals the case's Status and
\* the case has no Output or the body equals Output exactly; the verdict
\* printed is that result.
C2_Verdict ==
    /\ pc = "report" =>
          LET c == DocCases(program_data)[Len(requests)]
          IN  test_result <=>
                 /\ resp.status_code = c.Status
                 /\ \/ "Output" \notin DOMAIN c
                    \/ resp.text = c.Output
    /\ (output # <<>> /\ Last(output).kind \in {"Passed", "Failed"}) =>
          (Last(output).kind = "Passed" <=> test_result)

\* a case with Output failed on a body with one more character, the status
\* code being the expected one
C2_Witness ==
    /\ pc = "report"
    /\ ~test_result
    /\ LET c == DocCases(program_data)[Len(requests)]
       IN  /\ "Output" \in DOMAIN c
           /\ c.Output = "ok"
           /\ resp.text = "ok "
           /\ resp.status_code = c.Status

\* C3: with neither an override nor a Default URI, the run never gets past
\* the resolution of the base URI: no request, nothing printed, whatever the
\* groups and cases of the bundle.
C3_NoBaseUri ==
    (arg_base_uri = None /\ ~HasDefault) =>
        /\ requests = <<>>
        /\ inflight = 0
        /\ output = <<>>
        /\ pc \in {"parse_tests", "conduct_tests", "error"}
        /\ (pc = "error" /\ ~Malformed(program_data)) => err = "ArgumentError"

\* the run has failed for want of a base URI on a bundle of two groups
C3_Witness ==
    /\ pc = "error"
    /\ err = "ArgumentError"
    /\ arg_base_uri = None
    /\ Len(test.test_groups) = 2
    /\ Len(DocCases(program_data)) = MaxCases

\* C4: with an override and a different Default URI, every request goes to
\* override + endpoint and none to default + endpoint.
C4_OverrideWins ==
    (arg_base_uri # None /\ HasDefault /\ arg_base_uri[1] # DefaultUri) =>
        \A k \in DOMAIN requests :
            LET c == DocCases(program_data)[k]
            IN  /\ requests[k].url = arg_base_uri[1] \o c.Endpoint
                /\ requests[k].url # DefaultUri \o c.Endpoint

\* two requests were sent with a non-empty override and a default present
C4_Witness ==
    /\ arg_base_uri = Some("http://o")
    /\ HasDefault
    /\ Len(requests) = 2
    /\ requests[2].url = "http://o" \o DocCases(program_data)[2].Endpoint

\* the base URI the specification's resolution rule gives
SpecBaseUri ==
    IF arg_base_uri # None /\ arg_base_uri[1] # "" THEN arg_base_uri
    ELSE IF HasDefault THEN Some(DefaultUri)
    ELSE None

\* C5 as stated: an empty override counts as not provided, so that the
\* default is the base of every request when the override is absent or
\* empty, and the run fails before any request when there is no default.
C5_AsStated ==
    /\ \A k \in DOMAIN requests :
          /\ SpecBaseUri # None
          /\ requests[k].url
               = SpecBaseUri[1] \o DocCases(program_data)[k].Endpoint
    /\ SpecBaseUri = None =>
          pc \in {"parse_tests", "conduct_tests", "error"}

\* the base URI the code's resolution rule gives
CodeBaseUri ==
    IF arg_base_uri # None THEN arg_base_uri
    ELSE IF HasDefault THEN Some(DefaultUri)
    ELSE None

\* C5 amended: the override is the base of every request whenever it is
\* given, the empty string included; the default is used only when no
\* override is given; with neither, the run fails before any request.
C5_Resolution ==
    /\ \A k \in DOMAIN requests :
          /\ CodeBaseUri # None
          /\ requests[k].url
               = CodeBaseUri[1] \o DocCases(program_data)[k].Endpoint
    /\ pc \notin {"parse_tests", "conduct_tests", "error"} =>
          /\ CodeBaseUri # None
          /\ base_uri = CodeBaseUri[1]
    /\ CodeBaseUri = None =>
          /\ requests = <<>>
          /\ pc \in {"parse_tests", "conduct_tests", "error"}

\* a request went to the bare endpoint, the override being the empty string
\* and a default being present
C5_Witness ==
    /\ arg_base_uri = Some("")
    /\ HasDefault
    /\ requests # <<>>
    /\ requests[1].url = DocCases(program_data)[1].Endpoint

\* C6: the group names and verdict lines are printed, and the requests
\* sent, in the order of the group keys and of the cases in the document;
\* Name and Default URI are never printed as groups; each group name is
\* printed once, before its cases.
C6_Order ==
    ~Malformed(program_data) =>
        LET expected == ExpectedOrder(program_data)
            observed == ObservedOrder
            cases == DocCases(program_data)
        IN  /\ IsPrefix(observed, expected)
            /\ pc = "done" => observed = expected
            /\ \A k \in DOMAIN requests :
                  /\ requests[k].method = cases[k].Method
                  /\ requests[k].url = base_uri \o cases[k].Endpoint
            /\ \A i \in DOMAIN output :
                  output[i].kind = "Group" =>
                     /\ output[i].name \notin ReservedKeys
                     /\ \A j \in DOMAIN output :
                           (output[j].kind = "Group"
                              /\ output[j].name = output[i].name) => j = i

\* a run is over on a document whose two groups stand around the reserved
\* keys, the first in the document not being the first in the alphabet
C6_Witness ==
    /\ pc = "done"
    /\ Len(program_data) = 4
    /\ program_data[1].key = "Users"
    /\ program_data[2].key = "Default URI"
    /\ program_data[3].key = "Name"
    /\ program_data[4].key = "Posts"
    /\ Len(program_data[1].cases) = 1
    /\ Len(program_data[4].cases) = 1
    /\ program_data[1].cases # program_data[4].cases
    /\ Verdicts = 2

\* every case of the document has its verdict line, in order
AllVerdicts ==
    LET lines == SelectSeq(output, LAMBDA l : l.kind \in {"Passed", "Failed"})
        cases == DocCases(program_data)
    IN  /\ Len(lines) = Len(cases)
        /\ \A k \in DOMAIN lines : lines[k].name = cases[k].Name

\* the run can start its loops: the document parses and a base URI exists
Runnable ==
    /\ ~Malformed(program_data)
    /\ arg_base_uri # None \/ HasDefault

\* C7: a failed case does not end the run: when the document parses, a base
\* URI exists and no request raises, the run comes to its end without error
\* and with one verdict for every case, whatever the verdicts are.
C7_FailureContinues ==
    (Runnable /\ [](err # "ConnectionError"))
        => <>[](pc = "done" /\ err = "none" /\ AllVerdicts)

\* a run is over whose first case failed and whose last case passed
C7_Witness ==
    /\ pc = "done"
    /\ Verdicts = MaxCases
    /\ SelectSeq(output, LAMBDA l : l.kind \in {"Passed", "Failed"})[1].kind
         = "Failed"
    /\ Last(output).kind = "Passed"

\* C8: when the request of case k raises, the run is over: cases 1..k-1 have
\* their verdicts, case k has its indicator and no verdict, and nothing
\* follows: no request, no verdict, no group name.
C8_NetworkAbort ==
    err = "ConnectionError" =>
        /\ pc = "error"
        /\ ~ENABLED Next
        /\ inflight = 0
        /\ requests # <<>>
        /\ Indicators = Len(requests)
        /\ Verdicts = Len(requests) - 1
        /\ Last(output)
             = [kind |-> "Testing",
                name |-> DocCases(program_data)[Len(requests)].Name]
        /\ IsPrefix(ObservedOrder, ExpectedOrder(program_data))

\* the second request raised, with a case and a group still to come
C8_Witness ==
    /\ err = "ConnectionError"
    /\ Len(requests) = 2
    /\ Verdicts = 1
    /\ Len(DocCases(program_data)) = 3
    /\ Len(test.test_groups) = 2
    /\ Groups = 1

\* a document whose only keys are Name and, possibly, Default URI
EmptyBundle ==
    /\ HasKey(program_data, "Name")
    /\ \A i \in DOMAIN program_data : program_data[i].key \in ReservedKeys

\* C9 as stated: a bundle without groups prints nothing, sends nothing and
\* ends successfully, for every override and every default, absent or not.
C9_AsStated ==
    EmptyBundle =>
        /\ output = <<>>
        /\ requests = <<>>
        /\ pc # "error"

\* C9 amended: a bundle without groups prints nothing and sends nothing; it
\* ends successfully when an override or a default is present, and fails
\* for want of a base URI when both are absent.
C9_EmptyBundle ==
    EmptyBundle =>
        /\ output = <<>>
        /\ requests = <<>>
        /\ pc \in {"parse_tests", "conduct_tests", "for_group", "done", "error"}
        /\ Terminated \/ ENABLED Next
        /\ pc = "error" => (err = "ArgumentError" /\ arg_base_uri = None
                              /\ ~HasDefault)
        /\ pc = "done" => (arg_base_uri # None \/ HasDefault)

\* a bundle of Name and Default URI alone has run to its end without override
C9_Witness ==
    /\ EmptyBundle
    /\ HasDefault
    /\ arg_base_uri = None
    /\ pc = "done"

\* C10: at most one request is outstanding, no case is requested twice, and
\* verdicts <= requests <= indicators <= verdicts + 1: each case has its
\* indicator, then its one request, then its verdict, before the next case.
C10_Protocol ==
    LET lines == SelectSeq(output, LAMBDA l : l.kind # "Group")
        cases == DocCases(program_data)
    IN  /\ inflight \in {0, 1}
        /\ Verdicts <= Len(requests)
        /\ Len(requests) <= Indicators
        /\ Indicators <= Verdicts + 1
        /\ inflight = 1 => Len(requests) = Verdicts + 1
        /\ Len(requests) <= Len(cases)
        /\ \A i \in DOMAIN lines :
              IF i % 2 = 1
              THEN /\ lines[i].kind = "Testing"
                   /\ lines[i].name = cases[(i + 1) \div 2].Name
              ELSE /\ lines[i].kind \in {"Passed", "Failed"}
                   /\ lines[i].name = lines[i - 1].name

\* the second request is outstanding, the first case having its verdict
C10_Witness ==
    /\ inflight = 1
    /\ Len(requests) = 2
    /\ Indicators = 2
    /\ Verdicts = 1

====
